---- MODULE Spec2Model ----
(***************************************************************************)
(* Model of the notification scripts of the site repository:               *)
(*   scripts/post_to_telegram.py  (Telegram dispatcher, "all unsent")      *)
(*   scripts/send_newsletter.py   (newsletter dispatcher, "latest only")   *)
(*                                                                         *)
(* A Python str is a sequence of tokens.  A token is a one-character       *)
(* string, or a longer string standing for a literal the code emits or     *)
(* receives as a unit and that holds none of the characters the code's     *)
(* patterns look for (an HTML tag, an entity, a placeholder, a base URL).  *)
(***************************************************************************)
EXTENDS Integers, Sequences, FiniteSets, TLC

VARIABLES
    posts,        \* content/posts: the *.md files [stem, text], oldest mtime first
    dirExists,    \* whether content/posts exists
    store,        \* .telegram_sent_posts: [exists, text]
    pc,           \* "idle", "sending" (inside main's for loop), "exited"
    which,        \* the script of the current run: "telegram", "newsletter", "none"
    env,          \* os.environ of the current run
    unsent,       \* main's unsent_posts
    idx,          \* position of the for loop in unsent_posts
    exit,         \* the status main returned, once pc = "exited"
    calls,        \* the requests.post calls of the current run
    listed,       \* whether the run listed or read content/posts
    marked,       \* slugs given to save_sent_post in the current run
    everMarked,   \* slugs given to save_sent_post in any run
    storeAtStart, \* store when the current run began
    text,         \* input of the function under analysis
    result,       \* its output
    fpc           \* "input" before the function is applied, "output" after

vars == <<posts, dirExists, store, pc, which, env, unsent, idx, exit, calls,
          listed, marked, everMarked, storeAtStart, text, result, fpc>>

(***************************************************************************)
(* Bounds                                                                  *)
(***************************************************************************)
MaxPosts == 2
MaxTextLen == 4
MaxFrags == 3

(***************************************************************************)
(* str helpers                                                             *)
(***************************************************************************)
Min(S) == CHOOSE x \in S : \A y \in S : x <= y

Max(S) == CHOOSE x \in S : \A y \in S : x >= y

Range(s) == {s[i] : i \in DOMAIN s}

\* str.isspace for the characters of the model
Whitespace == {" ", "\n"}

\* ord(c)
Code(c) ==
    CASE c = "\n" -> 10
      [] c = " " -> 32
      [] c = ":" -> 58
      [] c = "K" -> 75
      [] c = "S" -> 83
      [] c = "a" -> 97
      [] c = "b" -> 98
      [] c = "g" -> 103
      [] c = "k" -> 107
      [] c = "l" -> 108
      [] c = "s" -> 115
      [] c = "u" -> 117
      [] c = "x" -> 120
      [] OTHER -> 128

\* str.lower, per character
LowerChar(c) ==
    CASE c = "K" -> "k"
      [] c = "S" -> "s"
      [] OTHER -> c

Lower(s) == [i \in DOMAIN s |-> LowerChar(s[i])]

\* first position >= i of s holding a token of S, Len(s) + 1 if none
SkipUntilIn(s, i, S) ==
    LET J == {j \in i..Len(s) : s[j] \in S}
    IN IF J = {} THEN Len(s) + 1 ELSE Min(J)

\* first position >= i of s holding a token outside S, Len(s) + 1 if none
SkipWhileIn(s, i, S) ==
    LET J == {j \in i..Len(s) : s[j] \notin S}
    IN IF J = {} THEN Len(s) + 1 ELSE Min(J)

\* s[i:j] with 1-based i and exclusive j
Slice(s, i, j) == IF j <= i THEN <<>> ELSE SubSeq(s, i, j - 1)

\* str.strip()
Strip(s) ==
    LET first == SkipWhileIn(s, 1, Whitespace)
        K == {j \in 1..Len(s) : s[j] \notin Whitespace}
    IN IF K = {} THEN <<>> ELSE SubSeq(s, first, Max(K))

\* str.split(sep) for a one-character sep: always at least one piece
RECURSIVE Split(_, _)
Split(s, sep) ==
    LET j == SkipUntilIn(s, 1, {sep})
    IN IF j > Len(s) THEN <<s>>
       ELSE <<Slice(s, 1, j)>> \o Split(Slice(s, j + 1, Len(s) + 1), sep)

\* str.splitlines(): no piece for the text after a final line break
RECURSIVE SplitLines(_)
SplitLines(s) ==
    IF s = <<>> THEN <<>>
    ELSE LET j == SkipUntilIn(s, 1, {"\n"})
         IN IF j > Len(s) THEN <<s>>
            ELSE <<Slice(s, 1, j)>> \o SplitLines(Slice(s, j + 1, Len(s) + 1))

\* sep.join(parts)
RECURSIVE Join(_, _)
Join(parts, sep) ==
    IF parts = <<>> THEN <<>>
    ELSE IF Len(parts) = 1 THEN parts[1]
    ELSE parts[1] \o <<sep>> \o Join(Tail(parts), sep)

\* s <= t in Python's str order (code point by code point)
RECURSIVE StrLE(_, _)
StrLE(s, t) ==
    IF s = <<>> THEN TRUE
    ELSE IF t = <<>> THEN FALSE
    ELSE IF Head(s) = Head(t) THEN StrLE(Tail(s), Tail(t))
    ELSE Code(Head(s)) < Code(Head(t))

\* sorted(S) for a set of str
RECURSIVE Sorted(_)
Sorted(S) ==
    IF S = {} THEN <<>>
    ELSE LET m == CHOOSE x \in S : \A y \in S : StrLE(x, y)
         IN <<m>> \o Sorted(S \ {m})

\* whether part occurs in s as a contiguous run
Contains(s, part) ==
    \E i \in 1..(Len(s) - Len(part) + 1) : SubSeq(s, i, i + Len(part) - 1) = part

(***************************************************************************)
(* Delivery-state tracker                                                  *)
(***************************************************************************)
NoStore == [exists |-> FALSE, text |-> <<>>]

load_sent_posts(st) ==
    IF st.exists THEN Range(Split(Strip(st.text), "\n")) ELSE {}

save_sent_post(st, slug) ==
    [exists |-> TRUE, text |-> Join(Sorted(load_sent_posts(st) \cup {slug}), "\n")]

(***************************************************************************)
(* Metadata parser                                                         *)
(***************************************************************************)
EmptyDict == [k \in {} |-> <<>>]

\* metadata[key] = value
DictSet(d, key, value) ==
    [k \in DOMAIN d \cup {key} |-> IF k = key THEN value ELSE d[k]]

\* dict.get(key, default)
DictGet(d, key, default) == IF key \in DOMAIN d THEN d[key] ELSE default

\* the for loop of parse_metadata from line i on: [metadata, body_start]
\* (body_start is 0-based, as in the code)
RECURSIVE ScanHeader(_, _, _)
ScanHeader(lines, i, metadata) ==
    IF i > Len(lines) THEN [metadata |-> metadata, body_start |-> 0]
    ELSE IF Strip(lines[i]) = <<>> THEN [metadata |-> metadata, body_start |-> i]
    ELSE IF ":" \in Range(lines[i])
         THEN LET c == SkipUntilIn(lines[i], 1, {":"})
                  key == Lower(Strip(Slice(lines[i], 1, c)))
                  value == Strip(Slice(lines[i], c + 1, Len(lines[i]) + 1))
              IN ScanHeader(lines, i + 1, DictSet(metadata, key, value))
         ELSE ScanHeader(lines, i + 1, metadata)

parse_metadata(t) ==
    LET lines == SplitLines(t)
        h == ScanHeader(lines, 1, EmptyDict)
    IN [metadata |-> h.metadata,
        body |-> Strip(Join(Slice(lines, h.body_start + 1, Len(lines) + 1), "\n"))]

(***************************************************************************)
(* Markdown-to-Telegram-HTML renderer                                      *)
(***************************************************************************)
\* the glyph the image rule writes
ICON == "ICON"

\* \w of the patterns, for the characters of the model
WordChars == {"x", "u", "v", "_"}

StartsWith(s, i, part) ==
    /\ i + Len(part) - 1 <= Len(s)
    /\ SubSeq(s, i, i + Len(part) - 1) = part

EscapeChar(c) ==
    CASE c = "&" -> "&amp;"
      [] c = "<" -> "&lt;"
      [] c = ">" -> "&gt;"
      [] OTHER -> c

escape_html(s) == [i \in DOMAIN s |-> EscapeChar(s[i])]

\* the placeholders save_code_block and save_inline_code return
CodeBlockToken(n) ==
    CASE n = 0 -> "__CODE_BLOCK_0__"
      [] n = 1 -> "__CODE_BLOCK_1__"
      [] n = 2 -> "__CODE_BLOCK_2__"
      [] OTHER -> "__CODE_BLOCK_n__"

InlineToken(n) ==
    CASE n = 0 -> "__INLINE_0__"
      [] n = 1 -> "__INLINE_1__"
      [] n = 2 -> "__INLINE_2__"
      [] OTHER -> "__INLINE_n__"

\* the backtick character, which a TLA+ string cannot hold
BQ == "BQ"

Fence == <<BQ, BQ, BQ>>

\* ```(\w*)\n([\s\S]*?)``` at position i: [ok, content, end]
CodeBlockAt(s, i) ==
    LET w == SkipWhileIn(s, i + 3, WordChars)
        J == {j \in (w + 1)..Len(s) : StartsWith(s, j, Fence)}
    IN IF /\ StartsWith(s, i, Fence)
          /\ w <= Len(s)
          /\ s[w] = "\n"
          /\ J # {}
       THEN [ok |-> TRUE, content |-> Slice(s, w + 1, Min(J)), end |-> Min(J) + 3]
       ELSE [ok |-> FALSE, content |-> <<>>, end |-> i]

\* `([^`]+)` at position i: [ok, content, end]
InlineCodeAt(s, i) ==
    LET j == SkipUntilIn(s, i + 1, {BQ})
    IN IF /\ i <= Len(s)
          /\ s[i] = BQ
          /\ j > i + 1
          /\ j <= Len(s)
       THEN [ok |-> TRUE, content |-> Slice(s, i + 1, j), end |-> j + 1]
       ELSE [ok |-> FALSE, content |-> <<>>, end |-> i]

\* re.sub(r'```(\w*)\n([\s\S]*?)```', save_code_block, text) from position i on:
\* [text, code_blocks]
RECURSIVE SubCodeBlocks(_, _, _, _)
SubCodeBlocks(s, i, out, code_blocks) ==
    IF i > Len(s) THEN [text |-> out, code_blocks |-> code_blocks]
    ELSE LET m == CodeBlockAt(s, i)
         IN IF m.ok
            THEN SubCodeBlocks(s, m.end, out \o <<CodeBlockToken(Len(code_blocks))>>,
                     Append(code_blocks,
                            <<"<pre>">> \o escape_html(Strip(m.content)) \o <<"</pre>">>))
            ELSE SubCodeBlocks(s, i + 1, Append(out, s[i]), code_blocks)

\* re.sub(r'`([^`]+)`', save_inline_code, text) from position i on:
\* [text, inline_codes]
RECURSIVE SubInlineCodes(_, _, _, _)
SubInlineCodes(s, i, out, inline_codes) ==
    IF i > Len(s) THEN [text |-> out, inline_codes |-> inline_codes]
    ELSE LET m == InlineCodeAt(s, i)
         IN IF m.ok
            THEN SubInlineCodes(s, m.end, out \o <<InlineToken(Len(inline_codes))>>,
                     Append(inline_codes,
                            <<"<code>">> \o escape_html(m.content) \o <<"</code>">>))
            ELSE SubInlineCodes(s, i + 1, Append(out, s[i]), inline_codes)

\* str.replace(old, new) for a one-token old
RECURSIVE Replace(_, _, _)
Replace(s, old, new) ==
    IF s = <<>> THEN <<>>
    ELSE (IF Head(s) = old THEN new ELSE <<Head(s)>>) \o Replace(Tail(s), old, new)

\* for i, block in enumerate(code_blocks): text = text.replace(f"__CODE_BLOCK_{i}__", block)
RECURSIVE RestoreCodeBlocks(_, _, _)
RestoreCodeBlocks(s, code_blocks, i) ==
    IF i > Len(code_blocks) THEN s
    ELSE RestoreCodeBlocks(Replace(s, CodeBlockToken(i - 1), code_blocks[i]),
                           code_blocks, i + 1)

\* for i, code in enumerate(inline_codes): text = text.replace(f"__INLINE_{i}__", code)
RECURSIVE RestoreInlineCodes(_, _, _)
RestoreInlineCodes(s, inline_codes, i) ==
    IF i > Len(inline_codes) THEN s
    ELSE RestoreInlineCodes(Replace(s, InlineToken(i - 1), inline_codes[i]),
                            inline_codes, i + 1)

NoMatch(i) == [ok |-> FALSE, rep |-> <<>>, end |-> i]

\* dd(.+?)dd -> open \1 close, for a delimiter character d
PairedAt(s, i, d, open, close) ==
    LET J == {j \in (i + 3)..(Len(s) - 1) :
                 /\ s[j] = d
                 /\ s[j + 1] = d
                 /\ \A k \in (i + 2)..(j - 1) : s[k] # "\n"}
    IN IF StartsWith(s, i, <<d, d>>) /\ J # {}
       THEN [ok |-> TRUE,
             rep |-> <<open>> \o Slice(s, i + 2, Min(J)) \o <<close>>,
             end |-> Min(J) + 2]
       ELSE NoMatch(i)

\* (?<![*_])d([^d]+)d(?![*_]) -> <i>\1</i>, for a delimiter character d
ItalicAt(s, i, d) ==
    LET j == SkipUntilIn(s, i + 1, {d})
    IN IF /\ s[i] = d
          /\ (i = 1 \/ s[i - 1] \notin {"*", "_"})
          /\ j > i + 1
          /\ j <= Len(s)
          /\ (j = Len(s) \/ s[j + 1] \notin {"*", "_"})
       THEN [ok |-> TRUE,
             rep |-> <<"<i>">> \o Slice(s, i + 1, j) \o <<"</i>">>,
             end |-> j + 1]
       ELSE NoMatch(i)

\* \[([^\]]+)\]\(([^)]+)\) -> <a href="\2">\1</a>
LinkAt(s, i) ==
    LET c == SkipUntilIn(s, i + 1, {"]"})
        p == SkipUntilIn(s, c + 2, {")"})
    IN IF /\ s[i] = "["
          /\ c > i + 1
          /\ c + 1 <= Len(s)
          /\ s[c + 1] = "("
          /\ p > c + 2
          /\ p <= Len(s)
       THEN [ok |-> TRUE,
             rep |-> <<"<a href=\"">> \o Slice(s, c + 2, p) \o <<"\">">>
                     \o Slice(s, i + 1, c) \o <<"</a>">>,
             end |-> p + 1]
       ELSE NoMatch(i)

\* !\[([^\]]*)\]\([^)]+\) -> glyph, space, \1
ImageAt(s, i) ==
    LET c == SkipUntilIn(s, i + 2, {"]"})
        p == SkipUntilIn(s, c + 2, {")"})
    IN IF /\ StartsWith(s, i, <<"!", "[">>)
          /\ c + 1 <= Len(s)
          /\ s[c + 1] = "("
          /\ p > c + 2
          /\ p <= Len(s)
       THEN [ok |-> TRUE, rep |-> <<ICON, " ">> \o Slice(s, i + 2, c), end |-> p + 1,
             alt |-> Slice(s, i + 2, c), url |-> Slice(s, c + 2, p)]
       ELSE NoMatch(i)

\* ^#{1,6}\s+(.+)$ with re.MULTILINE -> <b>\1</b>
HeadingAt(s, i) ==
    LET h == SkipWhileIn(s, i, {"#"})
        w == SkipWhileIn(s, h, Whitespace)
        G == {g \in (h + 1)..w : g <= Len(s) /\ s[g] # "\n"}
    IN IF /\ (i = 1 \/ s[i - 1] = "\n")
          /\ s[i] = "#"
          /\ h - i <= 6
          /\ h <= Len(s)
          /\ s[h] \in Whitespace
          /\ G # {}
       THEN LET g == Max(G)
                e == SkipUntilIn(s, g, {"\n"})
            IN [ok |-> TRUE, rep |-> <<"<b>">> \o Slice(s, g, e) \o <<"</b>">>, end |-> e]
       ELSE NoMatch(i)

\* \n{3,} -> \n\n
NewlinesAt(s, i) ==
    LET r == SkipWhileIn(s, i, {"\n"})
    IN IF r - i >= 3
       THEN [ok |-> TRUE, rep |-> <<"\n", "\n">>, end |-> r]
       ELSE NoMatch(i)

\* the match of one of the rules at position i
MatchAt(rule, s, i) ==
    CASE rule = "bold_star" -> PairedAt(s, i, "*", "<b>", "</b>")
      [] rule = "bold_under" -> PairedAt(s, i, "_", "<b>", "</b>")
      [] rule = "italic_star" -> ItalicAt(s, i, "*")
      [] rule = "italic_under" -> ItalicAt(s, i, "_")
      [] rule = "strike" -> PairedAt(s, i, "~", "<s>", "</s>")
      [] rule = "link" -> LinkAt(s, i)
      [] rule = "image" -> ImageAt(s, i)
      [] rule = "heading" -> HeadingAt(s, i)
      [] rule = "newlines" -> NewlinesAt(s, i)

\* re.sub for one rule from position i on: leftmost matches, left to right
RECURSIVE ReSub(_, _, _, _)
ReSub(rule, s, i, out) ==
    IF i > Len(s) THEN out
    ELSE LET m == MatchAt(rule, s, i)
         IN IF m.ok
            THEN ReSub(rule, s, m.end, out \o m.rep)
            ELSE ReSub(rule, s, i + 1, Append(out, s[i]))

\* the order in which convert_markdown_to_telegram_html applies its rules
\* after restoring the code
RuleOrder ==
    <<"bold_star", "bold_under", "italic_star", "italic_under", "strike",
      "link", "image", "heading", "newlines">>

RECURSIVE ApplyRules(_, _)
ApplyRules(rules, s) ==
    IF rules = <<>> THEN s
    ELSE ApplyRules(Tail(rules), ReSub(Head(rules), s, 1, <<>>))

\* the code_blocks and inline_codes lists of convert_markdown_to_telegram_html
ExtractedCode(t) ==
    LET blocks == SubCodeBlocks(t, 1, <<>>, <<>>)
        inline == SubInlineCodes(blocks.text, 1, <<>>, <<>>)
    IN [text |-> inline.text,
        code_blocks |-> blocks.code_blocks,
        inline_codes |-> inline.inline_codes]

convert_markdown_to_telegram_html(t) ==
    LET x == ExtractedCode(t)
        escaped == escape_html(x.text)
        restored == RestoreInlineCodes(RestoreCodeBlocks(escaped, x.code_blocks, 1),
                                       x.inline_codes, 1)
    IN Strip(ApplyRules(RuleOrder, restored))

\* title and link are str, body the post's body
build_message(meta, body, url) ==
    LET title == DictGet(meta, <<"t", "i", "t", "l", "e">>, <<"New post">>)
    IN Join(<< <<"<b>">> \o escape_html(title) \o <<"</b>">>,
               <<>>,
               convert_markdown_to_telegram_html(body),
               <<>>,
               <<"LINKICON", " ", "<a href=\"">> \o url \o <<"\">", "Read more", "</a>">>,
               <<>>,
               <<"@lab_log">> >>, "\n")

(***************************************************************************)
(* Dispatchers                                                             *)
(***************************************************************************)
\* os.environ.get of a variable that is not set
Unset == "<unset>"

\* not value, for a value os.getenv returned
Falsy(value) == value \in {Unset, ""}

\* SITEURL (or its default) after rstrip("/")
siteurl == <<"https://kmamaroziqov.github.io">>

Stems == {<<"a">>, <<"b">>, <<" ", "a">>}

PostTexts ==
    {<<"x">>,
     <<"s", "l", "u", "g", ":", "a", "\n", "\n", "x">>,
     <<"S", "l", "u", "g", ":", "\n", "\n", "*", "*", "x", "*", "*">>}

PostFiles == [stem : Stems, text : PostTexts]

SlugKey == <<"s", "l", "u", "g">>

\* meta.get("slug", post_file.stem)
Slug(post) == DictGet(parse_metadata(post.text).metadata, SlugKey, post.stem)

\* meta.get("link") or f"{siteurl}/posts/{slug}/"
LinkOf(post) ==
    LET link == DictGet(parse_metadata(post.text).metadata, <<"l", "i", "n", "k">>, <<>>)
    IN IF link # <<>> THEN link ELSE siteurl \o <<"/posts/">> \o Slug(post) \o <<"/">>

\* the message main of post_to_telegram.py builds for a post
MessageOf(post) ==
    LET p == parse_metadata(post.text)
    IN build_message(p.metadata, p.body, LinkOf(post))

\* the body main of send_newsletter.py builds for a post
NewsletterBodyOf(post) ==
    DictGet(parse_metadata(post.text).metadata,
            <<"s", "u", "m", "m", "a", "r", "y">>, <<>>)
        \o <<"\n", "\n", "Read it here: ">> \o LinkOf(post)

\* the orders in which glob can yield n files
Orders(n) == {f \in [1..n -> 1..n] : \A i, j \in 1..n : f[i] = f[j] => i = j}

\* the posts whose slug is not in sent_slugs, in glob order
RECURSIVE FilterUnsent(_, _, _, _)
FilterUnsent(files, order, i, sent_slugs) ==
    IF i > Len(files) THEN <<>>
    ELSE (IF Slug(files[order[i]]) \notin sent_slugs THEN <<files[order[i]]>> ELSE <<>>)
         \o FilterUnsent(files, order, i + 1, sent_slugs)

get_unsent_posts(order) ==
    IF ~dirExists THEN <<>>
    ELSE FilterUnsent(posts, order, 1, load_sent_posts(store))

\* latest_post: the file with the largest st_mtime, None (<<>>) without files
latest_post == IF posts = <<>> THEN <<>> ELSE <<posts[Len(posts)]>>

\* the credential check with "and" for "or": one credential is enough
TelegramGate_OneCredentialEnough(e) ==
    IF e.SKIP_TELEGRAM = "1" THEN "skip"
    ELSE IF Falsy(e.TELEGRAM_BOT_TOKEN) /\ Falsy(e.TELEGRAM_CHAT_ID) THEN "missing"
    ELSE "go"

\* main of post_to_telegram.py before the posts are looked at
TelegramGate(e) ==
    IF e.SKIP_TELEGRAM = "1" THEN "skip"
    ELSE IF Falsy(e.TELEGRAM_BOT_TOKEN) \/ Falsy(e.TELEGRAM_CHAT_ID) THEN "missing"
    ELSE "go"

\* the credential check moved before the opt-out check
NewsletterGate_KeyFirst(e) ==
    IF Falsy(e.BUTTONDOWN_API_KEY) THEN "missing"
    ELSE IF e.SKIP_NEWSLETTER = "1" THEN "skip"
    ELSE "go"

\* main of send_newsletter.py before the posts are looked at
NewsletterGate(e) ==
    IF e.SKIP_NEWSLETTER = "1" THEN "skip"
    ELSE IF Falsy(e.BUTTONDOWN_API_KEY) THEN "missing"
    ELSE "go"

\* only server errors count as failures
TelegramFailed_ServerErrorsOnly(status) == status >= 500

\* resp.status_code != 200
TelegramFailed(status) == status # 200

\* resp.status_code >= 300
NewsletterFailed(status) == status >= 300

Statuses == {200, 201, 404}

\* what requests.post does: it raises, or returns a response with a status
Responses ==
    {[raised |-> TRUE, status |-> 0]}
        \cup {[raised |-> FALSE, status |-> st] : st \in Statuses}

TelegramEnv(skip, token, chat) ==
    [SKIP_TELEGRAM |-> skip, TELEGRAM_BOT_TOKEN |-> token, TELEGRAM_CHAT_ID |-> chat]

TelegramEnvs ==
    {TelegramEnv(Unset, "token", "chat"),
     TelegramEnv("1", "token", "chat"),
     TelegramEnv("1", Unset, Unset),
     TelegramEnv(Unset, Unset, "chat"),
     TelegramEnv(Unset, "token", Unset),
     TelegramEnv(Unset, "", "chat"),
     TelegramEnv("0", Unset, Unset)}

NewsletterEnv(skip, key) == [SKIP_NEWSLETTER |-> skip, BUTTONDOWN_API_KEY |-> key]

NewsletterEnvs ==
    {NewsletterEnv(Unset, "key"),
     NewsletterEnv("1", "key"),
     NewsletterEnv("1", Unset),
     NewsletterEnv(Unset, Unset),
     NewsletterEnv("0", "")}

FunctionsIdle ==
    /\ text = <<>>
    /\ result = <<>>
    /\ fpc = "off"

\* no run has started
NoRun ==
    /\ pc = "idle"
    /\ which = "none"
    /\ env = <<>>
    /\ unsent = <<>>
    /\ idx = 1
    /\ exit = 0
    /\ calls = <<>>
    /\ listed = FALSE
    /\ marked = {}
    /\ everMarked = {}
    /\ storeAtStart = NoStore

Init ==
    /\ posts = <<>>
    /\ dirExists \in BOOLEAN
    /\ store = NoStore
    /\ NoRun
    /\ FunctionsIdle

\* a post is published between two runs
AddPost(post) ==
    /\ pc # "sending"
    /\ Len(posts) < MaxPosts
    /\ \A i \in DOMAIN posts : posts[i].stem # post.stem
    /\ posts' = Append(posts, post)
    /\ dirExists' = TRUE
    /\ UNCHANGED <<store, pc, which, env, unsent, idx, exit, calls, listed, marked,
                   everMarked, storeAtStart, text, result, fpc>>

\* main of post_to_telegram.py up to its for loop
TelegramStart(e, order) ==
    /\ pc # "sending"
    /\ which' = "telegram"
    /\ env' = e
    /\ calls' = <<>>
    /\ marked' = {}
    /\ storeAtStart' = store
    /\ idx' = 1
    /\ IF TelegramGate(e) = "skip"
       THEN /\ exit' = 0
            /\ pc' = "exited"
            /\ listed' = FALSE
            /\ unsent' = <<>>
       ELSE IF TelegramGate(e) = "missing"
       THEN /\ exit' = 1
            /\ pc' = "exited"
            /\ listed' = FALSE
            /\ unsent' = <<>>
       ELSE /\ unsent' = get_unsent_posts(order)
            /\ listed' = dirExists
            /\ exit' = 0
            /\ pc' = IF unsent' = <<>> THEN "exited" ELSE "sending"
    /\ UNCHANGED <<posts, dirExists, store, everMarked, text, result, fpc>>

\* one iteration of main's for loop, and the return after the last one
TelegramSend(r) ==
    /\ pc = "sending"
    /\ LET post == unsent[idx]
           slug == Slug(post)
       IN /\ calls' = Append(calls,
                 [stem |-> post.stem, slug |-> slug, text |-> MessageOf(post),
                  recorded |-> slug \in load_sent_posts(store),
                  raised |-> r.raised, status |-> r.status])
          /\ IF r.raised \/ TelegramFailed(r.status)
             THEN /\ exit' = 1
                  /\ pc' = "exited"
                  /\ UNCHANGED <<store, marked, everMarked, idx>>
             ELSE /\ store' = save_sent_post(store, slug)
                  /\ marked' = marked \cup {slug}
                  /\ everMarked' = everMarked \cup {slug}
                  /\ IF idx = Len(unsent)
                     THEN /\ exit' = 0
                          /\ pc' = "exited"
                          /\ idx' = idx
                     ELSE /\ idx' = idx + 1
                          /\ UNCHANGED <<exit, pc>>
    /\ UNCHANGED <<posts, dirExists, which, env, unsent, listed, storeAtStart,
                   text, result, fpc>>

\* main of send_newsletter.py
NewsletterRun(e, r) ==
    /\ pc # "sending"
    /\ which' = "newsletter"
    /\ env' = e
    /\ marked' = {}
    /\ storeAtStart' = store
    /\ idx' = 1
    /\ unsent' = <<>>
    /\ pc' = "exited"
    /\ IF NewsletterGate(e) = "skip"
       THEN /\ exit' = 0
            /\ listed' = FALSE
            /\ calls' = <<>>
       ELSE IF NewsletterGate(e) = "missing"
       THEN /\ exit' = 1
            /\ listed' = FALSE
            /\ calls' = <<>>
       ELSE /\ listed' = TRUE
            /\ IF latest_post = <<>>
               THEN /\ exit' = 0
                    /\ calls' = <<>>
               ELSE LET post == latest_post[1]
                    IN /\ calls' = <<[stem |-> post.stem, slug |-> Slug(post),
                                      text |-> NewsletterBodyOf(post),
                                      recorded |-> FALSE,
                                      raised |-> r.raised, status |-> r.status]>>
                       /\ exit' = IF r.raised \/ NewsletterFailed(r.status) THEN 1 ELSE 0
    /\ UNCHANGED <<posts, dirExists, store, everMarked, text, result, fpc>>

\* glob runs only in a run that gets past the gate
GlobOrders(e) ==
    IF TelegramGate(e) = "go" /\ dirExists
    THEN Orders(Len(posts))
    ELSE {[i \in 1..Len(posts) |-> i]}

\* requests.post runs only in a run that gets past the gate and finds a post
NewsletterResponses(e) ==
    IF NewsletterGate(e) = "go" /\ latest_post # <<>>
    THEN Responses
    ELSE {[raised |-> FALSE, status |-> 200]}

Next ==
    \/ \E post \in PostFiles : AddPost(post)
    \/ \E e \in TelegramEnvs :
          \E order \in GlobOrders(e) : TelegramStart(e, order)
    \/ \E r \in Responses : TelegramSend(r)
    \/ \E e \in NewsletterEnvs :
          \E r \in NewsletterResponses(e) : NewsletterRun(e, r)

Spec == Init /\ [][Next]_vars

(***************************************************************************)
(* The functions on their own: an input is drawn, the function is applied  *)
(***************************************************************************)
DispatchersIdle ==
    /\ posts = <<>>
    /\ dirExists = FALSE
    /\ NoRun

RunUnchanged ==
    UNCHANGED <<posts, dirExists, pc, which, env, unsent, idx, exit, calls, listed,
                marked, everMarked, storeAtStart>>

\* all str of at most n characters of A
Strings(A, n) == UNION {[1..k -> A] : k \in 0..n}

RECURSIVE Flatten(_)
Flatten(parts) == IF parts = <<>> THEN <<>> ELSE Head(parts) \o Flatten(Tail(parts))

ParseAlphabet == {"k", "S", ":", " ", "\n", "x"}

ParseTexts == Strings(ParseAlphabet, MaxTextLen)

InitParse ==
    /\ DispatchersIdle
    /\ store = NoStore
    /\ text \in ParseTexts
    /\ result = <<>>
    /\ fpc = "input"

Parse ==
    /\ fpc = "input"
    /\ result' = parse_metadata(text)
    /\ fpc' = "output"
    /\ RunUnchanged
    /\ UNCHANGED <<store, text>>

NextParse == Parse

SpecParse == InitParse /\ [][NextParse]_vars

\* pieces of Markdown a body is put together from
Frags ==
    {<<BQ, BQ, BQ, "\n">>,
     <<BQ, BQ, BQ>>,
     <<BQ>>,
     <<"*", "*", "x", "*", "*">>,
     <<"_", "x", "_">>,
     <<"~", "~", "x", "~", "~">>,
     <<"[", "x", "]", "(", "u", ")">>,
     <<"!", "[", "x", "]", "(", "v", ")">>,
     <<"!", "[", "]", "(", "v", ")">>,
     <<"#", " ", "x">>,
     <<"\n">>,
     <<"x">>,
     <<"<">>}

Bodies == {Flatten(parts) : parts \in Strings(Frags, MaxFrags)}

InitRender ==
    /\ DispatchersIdle
    /\ store = NoStore
    /\ text \in Bodies
    /\ result = <<>>
    /\ fpc = "input"

Render ==
    /\ fpc = "input"
    /\ result' = convert_markdown_to_telegram_html(text)
    /\ fpc' = "output"
    /\ RunUnchanged
    /\ UNCHANGED <<store, text>>

NextRender == Render

SpecRender == InitRender /\ [][NextRender]_vars

\* slugs main can hand to save_sent_post: stripped metadata values and file stems
SlugValues ==
    {<<>>, <<"a">>, <<"b">>, <<"x">>, <<" ", "a">>, <<"b", " ">>, <<"a", " ", "b">>}

InitTracker ==
    /\ DispatchersIdle
    /\ store = NoStore
    /\ text = <<>>
    /\ result = {}
    /\ fpc = "input"

\* save_sent_post(slug); result keeps what load_sent_posts returned inside it
MarkSent(slug) ==
    /\ result' = load_sent_posts(store)
    /\ store' = save_sent_post(store, slug)
    /\ text' = slug
    /\ fpc' = "output"
    /\ RunUnchanged

NextTracker == \E slug \in SlugValues : MarkSent(slug)

SpecTracker == InitTracker /\ [][NextTracker]_vars

(***************************************************************************)
(* Properties                                                              *)
(***************************************************************************)
\* a response came back and its status is 2xx
Is2xx(call) == ~call.raised /\ call.status >= 200 /\ call.status < 300

\* a response came back and its status is not 2xx
IsNon2xx(call) == ~call.raised /\ ~(call.status >= 200 /\ call.status < 300)

\* the store after save_sent_post for each slug of slugs, in order
RECURSIVE SavedAfter(_, _)
SavedAfter(st, slugs) ==
    IF slugs = <<>> THEN st ELSE SavedAfter(save_sent_post(st, Head(slugs)), Tail(slugs))

\* the run ended with this status and touched neither the network, the posts nor
\* the store
EndedUntouched(status) ==
    /\ pc = "exited"
    /\ exit = status
    /\ calls = <<>>
    /\ ~listed
    /\ store = storeAtStart

\* C1: in a run of the Telegram dispatcher, the slugs given to save_sent_post are
\* exactly the slugs of the send calls that returned a 2xx status.
C1_RecordedIffSuccess ==
    which = "telegram" =>
        marked = {calls[k].slug : k \in {j \in DOMAIN calls : Is2xx(calls[j])}}

\* C2: when get_unsent_posts selects the pending posts of a run, none of them has a
\* slug that save_sent_post was given earlier, in this run or a previous one.
C2_NeverReselected ==
    [][(pc # "sending" /\ pc' = "sending")
          => \A k \in DOMAIN unsent' : Slug(unsent'[k]) \notin everMarked]_vars

\* C3: a send call of the Telegram dispatcher that returns a non-2xx status is the
\* last call of its run, the run exits with status 1, the failing post's slug is
\* not given to save_sent_post, and the store is as the deliveries made earlier in
\* the run left it.
C3_FailureAborts ==
    which = "telegram" =>
        \A k \in DOMAIN calls :
            IsNon2xx(calls[k]) =>
                /\ k = Len(calls)
                /\ pc = "exited"
                /\ exit = 1
                /\ marked = {calls[j].slug : j \in 1..(k - 1)}
                /\ store = SavedAfter(storeAtStart, [j \in 1..(k - 1) |-> calls[j].slug])

\* a run in which a post was delivered and the next send call returned a non-2xx
\* status
C3_Witness ==
    /\ which = "telegram"
    /\ Len(calls) = 2
    /\ IsNon2xx(calls[2])
    /\ calls[1].slug \in load_sent_posts(store)
    /\ store # storeAtStart

\* C4: a run without one of its required credentials and without its opt-out flag
\* exits with status 1 and makes no network call, lists no post and leaves the
\* store as it was.
C4_MissingCredentialAborts ==
    /\ (/\ which = "telegram"
        /\ env.SKIP_TELEGRAM # "1"
        /\ (env.TELEGRAM_BOT_TOKEN = Unset \/ env.TELEGRAM_CHAT_ID = Unset))
           => EndedUntouched(1)
    /\ (/\ which = "newsletter"
        /\ env.SKIP_NEWSLETTER # "1"
        /\ env.BUTTONDOWN_API_KEY = Unset)
           => EndedUntouched(1)

\* a Telegram run without TELEGRAM_CHAT_ID, with posts that were never sent
C4_Witness ==
    /\ which = "telegram"
    /\ env.SKIP_TELEGRAM # "1"
    /\ env.TELEGRAM_BOT_TOKEN = "token"
    /\ env.TELEGRAM_CHAT_ID = Unset
    /\ pc = "exited"
    /\ exit = 1
    /\ dirExists
    /\ \E i \in DOMAIN posts : Slug(posts[i]) \notin load_sent_posts(store)

\* C5: a run with its opt-out flag set to 1 exits with status 0, whatever the
\* credentials, and makes no network call, lists no post and leaves the store as
\* it was.
C5_OptOutExitsFirst ==
    /\ (which = "telegram" /\ env.SKIP_TELEGRAM = "1") => EndedUntouched(0)
    /\ (which = "newsletter" /\ env.SKIP_NEWSLETTER = "1") => EndedUntouched(0)

\* a newsletter run with the opt-out flag set, no API key, and a post to send
C5_Witness ==
    /\ which = "newsletter"
    /\ env.SKIP_NEWSLETTER = "1"
    /\ env.BUTTONDOWN_API_KEY = Unset
    /\ pc = "exited"
    /\ exit = 0
    /\ posts # <<>>

\* C6: load_sent_posts returns the empty set without a store, and after
\* save_sent_post(slug) the store holds the set load_sent_posts returned before the
\* call plus slug, sorted and newline-joined, and load_sent_posts returns that set.
C6_MarkSentRoundTrip ==
    /\ ~store.exists => load_sent_posts(store) = {}
    /\ fpc = "output" =>
          /\ store.exists
          /\ store.text = Join(Sorted(result \cup {text}), "\n")
          /\ load_sent_posts(store) = result \cup {text}

\* no line of t is empty or made of whitespace only
NoBlankLine(t) ==
    LET lines == SplitLines(t)
    IN \A i \in DOMAIN lines : Strip(lines[i]) # <<>>

\* C7: for a text without a blank line, parse_metadata returns an empty body.
C7_NoBlankLineEmptyBody ==
    (fpc = "output" /\ NoBlankLine(text)) => result.body = <<>>

\* C8: every fenced block and inline span extracted as code appears in the output
\* as it was saved: inside <pre> or <code>, HTML-escaped, otherwise unchanged.
C8_CodeVerbatim ==
    fpc = "output" =>
        LET x == ExtractedCode(text)
        IN /\ \A k \in DOMAIN x.code_blocks : Contains(result, x.code_blocks[k])
           /\ \A k \in DOMAIN x.inline_codes : Contains(result, x.inline_codes[k])

\* C9: for every image reference of a body without code, the output holds the
\* glyph followed by the alt text and no hyperlink to the image's URL.
C9_ImagePlaceholder ==
    (fpc = "output" /\ BQ \notin Range(text)) =>
        \A i \in DOMAIN text :
            LET m == ImageAt(text, i)
            IN m.ok =>
                /\ IF m.alt = <<>>
                   THEN Contains(result, <<ICON>>)
                   ELSE Contains(result, <<ICON, " ">> \o m.alt)
                /\ ~Contains(result, <<"<a href=\"">> \o m.url)

\* C10: in a run of the Telegram dispatcher no two send calls are for the same
\* slug, and no send call is for a slug load_sent_posts holds when it is made.
C10_OneCallPerSlug ==
    which = "telegram" =>
        /\ \A i, j \in DOMAIN calls : calls[i].slug = calls[j].slug => i = j
        /\ \A k \in DOMAIN calls : ~calls[k].recorded

====
